---- MODULE Spec2Model ----
(***************************************************************************)
(* Model of the PingPong web chat backend (backend/main.py, backend/db.py).*)
(*                                                                         *)
(* State: the SQLite tables friend_requests and messages, the process-wide *)
(* dict active_connections, one chat_ws handler per WebSocket connection   *)
(* (its position, its locals), and the HTTP calls in flight.               *)
(*                                                                         *)
(* Strings that pass through str.strip() are sequences of tokens, " "      *)
(* being the whitespace token; a username is a one-token string.           *)
(*                                                                         *)
(* Granularity: chat_ws and upload_file are coroutines of one event loop,  *)
(* so they interleave only at an await.  The friend-request routes are     *)
(* plain `def` routes, which FastAPI runs on worker threads: every SQL     *)
(* statement that db.py issues on its own connection is a step of its own. *)
(***************************************************************************)
EXTENDS Integers, Sequences, FiniteSets, TLC

\* ------------------------------------------------------------ bounds
\* WebSocket connection handles there are.
MaxConns == 3
\* HTTP calls that may be between two of their SQL statements at once.
MaxInflight == 2
\* SpecRelay: connections opened, and chat frames that pass the checks.
RelayConns == 2
RelayFrames == 1
\* SpecAuth: the same, beside the friend-request calls and the uploads.
AuthConns == 1
AuthFrames == 1
\* SpecOrder: connections opened, and chat frames that pass the checks.
OrderConns == 2
OrderFrames == 2
\* SpecSupersede: connections opened, and chat frames that pass the checks.
SupersedeConns == 3
SupersedeFrames == 1
\* SpecShare: connections opened, and uploads that pass the checks.
ShareConns == 2
ShareUploads == 1
\* SpecHistory: messages stored, and the values the wall clock takes (0 .. MaxClock).
HistoryMsgs == 2
MaxClock == 1

\* ------------------------------------------------------------ data
WS == " "

\* Rows of the users table (the database outlives the process; accounts are
\* created by /register before the behaviours studied here).
users ==
    { [id |-> 1, username |-> <<"alice">>],
      [id |-> 2, username |-> <<"bob">>],
      [id |-> 3, username |-> <<"carol">>] }

\* Rows of the sessions table: token -> user_id.
sessions ==
    { [token |-> <<"tok_alice">>, user_id |-> 1],
      [token |-> <<"tok_bob">>, user_id |-> 2] }

UserIds == { u.id : u \in users }

\* The users whose clients hold a token (get_current_user resolves it) and call
\* the HTTP routes; carol has an account and makes no call.
Callers == { s.user_id : s \in sessions }

Conns == 1 .. MaxConns
Slots == 1 .. MaxInflight

\* What a client may put in the token query parameter (<<>>: none given).
TokenInputs == { <<>>, <<"tok_alice">>, <<"tok_bob">>, <<"bogus">> }

\* Inbound JSON objects: every outcome of the checks, with and without
\* surrounding whitespace, and with keys missing.
FrameInputs ==
    { [type |-> "typing", to |-> <<"bob">>, text |-> <<"hi">>],
      [to |-> <<"bob">>, text |-> <<"hi">>],
      [type |-> "chat", text |-> <<"hi">>],
      [type |-> "chat", to |-> <<"bob">>],
      [type |-> "chat", to |-> <<WS>>, text |-> <<"hi">>],
      [type |-> "chat", to |-> <<"bob">>, text |-> <<WS, WS>>],
      [type |-> "chat", to |-> <<"zed">>, text |-> <<"hi">>],
      [type |-> "chat", to |-> <<"bob">>, text |-> <<"hi">>],
      [type |-> "chat", to |-> <<WS, "bob", WS>>, text |-> <<WS, "hi">>],
      [type |-> "chat", to |-> <<"bob">>, text |-> <<"hi">>, from |-> <<"bob">>],
      [type |-> "chat", to |-> <<"alice">>, text |-> <<"hi">>],
      [type |-> "chat", to |-> <<"alice", WS>>, text |-> <<"hi", WS>>] }

UsernameInputs == { <<"alice">>, <<"bob">>, <<WS, "bob">>, <<"zed">> }

VARIABLES
    friend_requests,     \* table friend_requests, in rowid order
    messages,            \* table messages, in rowid order
    msg_friends,         \* history: were sender and recipient friends at each append
    msg_conn,            \* history: the connection whose handler appended (0: an upload)
    now,                 \* the wall clock CURRENT_TIMESTAMP reads, in seconds
    active_connections,  \* dict username -> connection
    ws_pc,               \* per connection: position of its chat_ws handler
    ws_me,               \* per connection: user resolved from the token (<<>>: none)
    ws_open,             \* per connection: the client's end is still there
    ws_close,            \* per connection: close code sent by the server (<<>>: none)
    ws_cur,              \* per connection: locals of the loop iteration under way
    ws_sent,             \* history: frames the iteration under way has sent
    ws_saved,            \* history: rowids the iteration under way has stored
    last_iter,           \* history: the loop iteration that ended last
    ws_unreg,            \* history: what each handler's finally clause did
    ws_recv,             \* history: texts of the frames received that passed the checks
    calls,               \* HTTP calls between two steps, by slot
    respond_ok,          \* history: successful responds per request id (capped)
    history,             \* history: the GET /history call answered last
    last_upload,         \* history: the POST /upload call that ended last
    nframes              \* chat frames and uploads accepted so far

vars ==
    << friend_requests, messages, msg_friends, msg_conn, now, active_connections,
       ws_pc, ws_me, ws_open, ws_close, ws_cur, ws_sent, ws_saved, last_iter,
       ws_unreg, ws_recv, calls, respond_ok, history, last_upload, nframes >>

dbVars == << friend_requests, messages, msg_friends, msg_conn, now >>
wsVars ==
    << active_connections, ws_pc, ws_me, ws_open, ws_close, ws_cur, ws_sent,
       ws_saved, last_iter, ws_unreg, ws_recv >>
httpVars == << calls, respond_ok, history, last_upload >>

\* ------------------------------------------------------------ str
RECURSIVE lstrip(_)
lstrip(s) ==
    IF s # <<>> /\ Head(s) = WS THEN lstrip(Tail(s)) ELSE s

RECURSIVE rstrip(_)
rstrip(s) ==
    IF s # <<>> /\ s[Len(s)] = WS THEN rstrip(SubSeq(s, 1, Len(s) - 1)) ELSE s

\* str.strip()
strip(s) == rstrip(lstrip(s))

\* data.get(key) or ""
get_or_empty(data, key) ==
    IF key \in DOMAIN data THEN data[key] ELSE <<>>

\* ------------------------------------------------------------ db.py
\* SELECT ... FROM users WHERE username = ? (the rows found)
get_user_by_username(username) ==
    { u \in users : u.username = username }

\* SELECT u.id, u.username FROM sessions s JOIN users u ... WHERE s.token = ?
get_user_by_token(token) ==
    { u \in users : \E s \in sessions : s.token = token /\ s.user_id = u.id }

username_of(user_id) ==
    (CHOOSE u \in users : u.id = user_id).username

\* The existence query asking for one direction only.
existing_requests_one_way(from_user_id, to_user_id) ==
    SelectSeq(friend_requests,
              LAMBDA r : r.from_user_id = from_user_id /\ r.to_user_id = to_user_id)

\* The rows of create_friend_request's existence query, in rowid order.
existing_requests(from_user_id, to_user_id) ==
    SelectSeq(friend_requests,
              LAMBDA r : \/ (r.from_user_id = from_user_id /\ r.to_user_id = to_user_id)
                         \/ (r.from_user_id = to_user_id /\ r.to_user_id = from_user_id))

\* The accepted-row query with its second direction left out.
are_friends_one_way(user_id1, user_id2) ==
    \E i \in DOMAIN friend_requests :
        /\ friend_requests[i].status = "accepted"
        /\ friend_requests[i].from_user_id = user_id1
        /\ friend_requests[i].to_user_id = user_id2

\* SELECT 1 FROM friend_requests WHERE status = 'accepted' AND ((from_user_id = ?
\* AND to_user_id = ?) OR (from_user_id = ? AND to_user_id = ?)) LIMIT 1
are_friends(user_id1, user_id2) ==
    \E i \in DOMAIN friend_requests :
        /\ friend_requests[i].status = "accepted"
        /\ \/ (friend_requests[i].from_user_id = user_id1
               /\ friend_requests[i].to_user_id = user_id2)
           \/ (friend_requests[i].from_user_id = user_id2
               /\ friend_requests[i].to_user_id = user_id1)

\* UNIQUE (from_user_id, to_user_id)
violates_unique(from_user_id, to_user_id) ==
    \E i \in DOMAIN friend_requests :
        /\ friend_requests[i].from_user_id = from_user_id
        /\ friend_requests[i].to_user_id = to_user_id

IdleCall == [op |-> "idle"]

FreeSlot(k) ==
    /\ calls[k].op = "idle"
    /\ \A j \in Slots : j < k => calls[j].op # "idle"

\* The locals of one loop iteration that the rest of the iteration still reads.
Locals(verdict, to_username, text, target, target_ws) ==
    [verdict |-> verdict, to_username |-> to_username, text |-> text,
     target |-> target, target_ws |-> target_ws]

NoLocals == Locals("none", <<>>, <<>>, {}, <<>>)

\* No GET /history call has been answered yet; no POST /upload call has ended yet.
NoHistory ==
    [me |-> 0, friend |-> 0, limit |-> 0, count |-> 0, ids |-> <<>>, rows |-> <<>>]

NoUpload ==
    [me |-> 0, target |-> 0, stored |-> FALSE, result |-> "none", sent |-> <<>>,
     sender_live |-> FALSE]

\* ------------------------------------------------------------ init
Init ==
    /\ friend_requests = <<>>
    /\ messages = <<>>
    /\ msg_friends = <<>>
    /\ msg_conn = <<>>
    /\ now = 0
    /\ active_connections = << >>
    /\ ws_pc = [c \in Conns |-> "new"]
    /\ ws_me = [c \in Conns |-> <<>>]
    /\ ws_open = [c \in Conns |-> FALSE]
    /\ ws_close = [c \in Conns |-> <<>>]
    /\ ws_cur = [c \in Conns |-> NoLocals]
    /\ ws_sent = [c \in Conns |-> <<>>]
    /\ ws_saved = [c \in Conns |-> <<>>]
    /\ last_iter = [conn |-> 0, cur |-> NoLocals, sent |-> <<>>, saved |-> <<>>,
                    how |-> "none"]
    /\ ws_unreg = [c \in Conns |-> <<>>]
    /\ ws_recv = [c \in Conns |-> <<>>]
    /\ history = NoHistory
    /\ last_upload = NoUpload
    /\ calls = [k \in Slots |-> IdleCall]
    /\ respond_ok = <<>>
    /\ nframes = 0

\* ------------------------------------------------------------ friends
\* The checks without the test for a request to oneself.
create_check_self_allowed(from_user_id, to_username) ==
    LET target == get_user_by_username(to_username)
        to_user_id == (CHOOSE u \in target : TRUE).id
    IN  IF target = {} THEN "Target user does not exist"
        ELSE IF existing_requests(from_user_id, to_user_id) = <<>> THEN "insert"
        ELSE IF existing_requests(from_user_id, to_user_id)[1].status = "accepted"
        THEN "You are already friends"
        ELSE IF existing_requests(from_user_id, to_user_id)[1].status = "pending"
        THEN "A pending friend request already exists"
        ELSE "A friend request already exists"

\* create_friend_request up to its existence query: the message of the
\* ValueError it raises (the detail of the 400 response), or "insert" when it
\* goes on to the INSERT.
create_check(from_user_id, to_username) ==
    LET target == get_user_by_username(to_username)
        to_user_id == (CHOOSE u \in target : TRUE).id
    IN  IF target = {} THEN "Target user does not exist"
        ELSE IF to_user_id = from_user_id THEN "Cannot add yourself as a friend"
        ELSE IF existing_requests(from_user_id, to_user_id) = <<>> THEN "insert"
        ELSE IF existing_requests(from_user_id, to_user_id)[1].status = "accepted"
        THEN "You are already friends"
        ELSE IF existing_requests(from_user_id, to_user_id)[1].status = "pending"
        THEN "A pending friend request already exists"
        ELSE "A friend request already exists"

\* POST /friends/request, up to the existence query: the call ends with a 400
\* response, or stands before its INSERT.
CreateCheck(k, me, to_username) ==
    /\ FreeSlot(k)
    /\ calls' = IF create_check(me, strip(to_username)) = "insert"
                THEN [calls EXCEPT ![k] =
                        [op |-> "create", me |-> me,
                         to_user_id |->
                             (CHOOSE u \in get_user_by_username(strip(to_username)) :
                                  TRUE).id]]
                ELSE calls
    /\ UNCHANGED << dbVars, wsVars, respond_ok, history, last_upload, nframes >>

\* The INSERT of create_friend_request and its commit; a row with the same
\* (from_user_id, to_user_id) makes it raise sqlite3.IntegrityError.
CreateInsert(k) ==
    /\ calls[k].op = "create"
    /\ IF violates_unique(calls[k].me, calls[k].to_user_id)
       THEN UNCHANGED << friend_requests, respond_ok >>
       ELSE /\ friend_requests' = Append(friend_requests,
                    [id |-> Len(friend_requests) + 1,
                     from_user_id |-> calls[k].me,
                     to_user_id |-> calls[k].to_user_id,
                     status |-> "pending",
                     responded_at |-> "NULL"])
            /\ respond_ok' = Append(respond_ok, 0)
    /\ calls' = [calls EXCEPT ![k] = IdleCall]
    /\ UNCHANGED << messages, msg_friends, msg_conn, now, wsVars, history,
                    last_upload, nframes >>

\* The checks without the test of who responds.
respond_check_any_responder(request_id, to_user_id) ==
    IF request_id \notin DOMAIN friend_requests THEN "Friend request not found"
    ELSE IF friend_requests[request_id].status # "pending"
    THEN "Friend request is not pending"
    ELSE "update"

\* respond_to_friend_request up to its checks: the message of the ValueError it
\* raises, or "update" when it goes on to the UPDATE.
respond_check(request_id, to_user_id) ==
    IF request_id \notin DOMAIN friend_requests THEN "Friend request not found"
    ELSE IF friend_requests[request_id].to_user_id # to_user_id
    THEN "You are not allowed to respond to this request"
    ELSE IF friend_requests[request_id].status # "pending"
    THEN "Friend request is not pending"
    ELSE "update"

\* POST /friends/respond, up to the checks: the call ends with a 400 response,
\* or stands before its UPDATE.
RespondCheck(k, me, request_id, accept) ==
    /\ FreeSlot(k)
    /\ calls' = IF respond_check(request_id, me) = "update"
                THEN [calls EXCEPT ![k] =
                        [op |-> "respond", me |-> me, request_id |-> request_id,
                         accept |-> accept]]
                ELSE calls
    /\ UNCHANGED << dbVars, wsVars, respond_ok, history, last_upload, nframes >>

\* The UPDATE of respond_to_friend_request and its commit.
RespondUpdate(k) ==
    /\ calls[k].op = "respond"
    /\ LET request_id == calls[k].request_id
           new_status == IF calls[k].accept THEN "accepted" ELSE "rejected"
       IN  /\ friend_requests' = [friend_requests EXCEPT ![request_id] =
                   [@ EXCEPT !.status = new_status, !.responded_at = "stamped"]]
           /\ respond_ok' = [respond_ok EXCEPT ![request_id] =
                   IF @ < 2 THEN @ + 1 ELSE @]
    /\ calls' = [calls EXCEPT ![k] = IdleCall]
    /\ UNCHANGED << messages, msg_friends, msg_conn, now, wsVars, history,
                    last_upload, nframes >>

\* ------------------------------------------------------------ chat_ws
\* active_connections[username] = websocket
register(username, websocket) ==
    (username :> websocket) @@ active_connections

\* The pop without the identity test.
unregister_always(username, websocket) ==
    [n \in DOMAIN active_connections \ {username} |-> active_connections[n]]

\* if active_connections.get(username) is websocket: active_connections.pop(username)
unregister(username, websocket) ==
    IF username \in DOMAIN active_connections /\ active_connections[username] = websocket
    THEN [n \in DOMAIN active_connections \ {username} |-> active_connections[n]]
    ELSE active_connections

SystemFrame(message) == [type |-> "system", message |-> message]

\* A payload whose from is taken from the inbound frame's content.
ChatFrame_from_content(username, text) ==
    [type |-> "chat", from |-> text, text |-> text]

ChatFrame(username, text) == [type |-> "chat", from |-> username, text |-> text]

\* One send_json that went out: the connection it went to and the frame.
Out(ws, frame) == [to |-> ws, frame |-> frame]

\* The handler of connection c ends what it was doing: `how` says whether the
\* loop goes on ("continue") or which call raised.  What an iteration that had
\* received a frame did is kept in last_iter; its locals are dead.
EndIteration(c, how, sent, saved) ==
    /\ last_iter' = IF ws_cur[c] = NoLocals THEN last_iter
                    ELSE [conn |-> c, cur |-> ws_cur[c], sent |-> sent,
                          saved |-> saved, how |-> how]
    /\ ws_cur' = [ws_cur EXCEPT ![c] = NoLocals]
    /\ ws_sent' = [ws_sent EXCEPT ![c] = <<>>]
    /\ ws_saved' = [ws_saved EXCEPT ![c] = <<>>]

\* The iteration ends with `continue` (or falls off the loop body).
Continue(c, sent, saved) ==
    /\ EndIteration(c, "continue", sent, saved)
    /\ ws_pc' = [ws_pc EXCEPT ![c] = "active"]
    /\ UNCHANGED << active_connections, ws_open, ws_unreg >>

\* A call inside the try block raises: the finally clause runs, the handler
\* returns and the server closes the socket.
Finally(c, how) ==
    /\ EndIteration(c, how, ws_sent[c], ws_saved[c])
    /\ active_connections' = unregister(ws_me[c][1].username, c)
    /\ ws_unreg' = [ws_unreg EXCEPT ![c] =
            Append(@, IF active_connections' = active_connections
                      THEN "kept" ELSE "popped")]
    /\ ws_pc' = [ws_pc EXCEPT ![c] = "closed"]
    /\ ws_open' = [ws_open EXCEPT ![c] = FALSE]

\* A handler that closes an unauthenticated connection without the close code.
Connect_plain_close(c, token) ==
    /\ ws_pc[c] = "new"
    /\ \A b \in Conns : b < c => ws_pc[b] # "new"
    /\ IF token = <<>> \/ get_user_by_token(token) = {}
       THEN /\ ws_pc' = [ws_pc EXCEPT ![c] = "closed"]
            /\ UNCHANGED << active_connections, ws_me, ws_open, ws_close >>
       ELSE LET me == CHOOSE u \in get_user_by_token(token) : TRUE
            IN  /\ ws_me' = [ws_me EXCEPT ![c] = <<me>>]
                /\ active_connections' = register(me.username, c)
                /\ ws_pc' = [ws_pc EXCEPT ![c] = "greet"]
                /\ ws_open' = [ws_open EXCEPT ![c] = TRUE]
                /\ UNCHANGED ws_close
    /\ UNCHANGED << dbVars, ws_cur, ws_sent, ws_saved, last_iter, ws_unreg, ws_recv,
                    httpVars, nframes >>

\* A client opens /ws/chat?token=...: accept, resolve the token, register.
Connect(c, token) ==
    /\ ws_pc[c] = "new"
    /\ \A b \in Conns : b < c => ws_pc[b] # "new"
    /\ IF token = <<>> \/ get_user_by_token(token) = {}
       THEN /\ ws_pc' = [ws_pc EXCEPT ![c] = "closed"]
            /\ ws_close' = [ws_close EXCEPT ![c] = <<4401>>]
            /\ UNCHANGED << active_connections, ws_me, ws_open >>
       ELSE LET me == CHOOSE u \in get_user_by_token(token) : TRUE
            IN  /\ ws_me' = [ws_me EXCEPT ![c] = <<me>>]
                /\ active_connections' = register(me.username, c)
                /\ ws_pc' = [ws_pc EXCEPT ![c] = "greet"]
                /\ ws_open' = [ws_open EXCEPT ![c] = TRUE]
                /\ UNCHANGED ws_close
    /\ UNCHANGED << dbVars, ws_cur, ws_sent, ws_saved, last_iter, ws_unreg, ws_recv,
                    httpVars, nframes >>

\* await _send_system(websocket, f"Connected as {username}"), before the try
\* block: when it raises, the handler ends and no finally clause runs.
Greet(c) ==
    /\ ws_pc[c] = "greet"
    /\ IF ws_open[c]
       THEN Continue(c, <<Out(c, SystemFrame(<<"Connected as", ws_me[c][1].username>>))>>,
                     <<>>)
       ELSE /\ EndIteration(c, "greet", <<>>, <<>>)
            /\ ws_pc' = [ws_pc EXCEPT ![c] = "closed"]
            /\ UNCHANGED << active_connections, ws_open, ws_unreg >>
    /\ UNCHANGED << dbVars, ws_me, ws_close, ws_recv, httpVars, nframes >>

\* The client of connection c goes away (closes, or its network does).
ClientDrop(c) ==
    /\ ws_pc[c] \notin {"new", "closed"}
    /\ ws_open[c]
    /\ ws_open' = [ws_open EXCEPT ![c] = FALSE]
    /\ UNCHANGED << dbVars, active_connections, ws_pc, ws_me, ws_close, ws_cur,
                    ws_sent, ws_saved, last_iter, ws_unreg, ws_recv, httpVars, nframes >>

\* The checks of one inbound frame, from msg_type to the registry lookup.
Verdict(me, data) ==
    LET to_username == strip(get_or_empty(data, "to"))
        text == strip(get_or_empty(data, "text"))
        target == get_user_by_username(to_username)
    IN  IF "type" \notin DOMAIN data \/ data.type # "chat"
        THEN Locals("unsupported", <<>>, <<>>, {}, <<>>)
        ELSE IF to_username = <<>> \/ text = <<>>
        THEN Locals("required", <<>>, <<>>, {}, <<>>)
        ELSE IF target = {}
        THEN Locals("nouser", to_username, <<>>, {}, <<>>)
        ELSE IF ~are_friends(me.id, (CHOOSE u \in target : TRUE).id)
        THEN Locals("notfriend", to_username, <<>>, {}, <<>>)
        ELSE IF to_username \notin DOMAIN active_connections
        THEN Locals("offline", to_username, text, target, <<>>)
        ELSE Locals("online", to_username, text, target,
                    <<active_connections[to_username]>>)

\* A handler that reads the next frame while an iteration is under way.
RecvFrame_reentrant(c, data, limit) ==
    /\ ws_pc[c] \in {"active", "notice", "save", "deliver", "echo"}
    /\ ws_open[c]
    /\ LET v == Verdict(ws_me[c][1], data)
           passes == v.verdict \in {"offline", "online"}
       IN  /\ passes => nframes < limit
           /\ nframes' = IF passes THEN nframes + 1 ELSE nframes
           /\ ws_cur' = [ws_cur EXCEPT ![c] = v]
           /\ ws_pc' = [ws_pc EXCEPT ![c] = IF v.verdict = "online" THEN "save" ELSE "notice"]
           /\ ws_recv' = IF passes THEN [ws_recv EXCEPT ![c] = Append(@, v.text)]
                         ELSE ws_recv
    /\ UNCHANGED << dbVars, active_connections, ws_me, ws_open, ws_close, ws_sent,
                    ws_saved, last_iter, ws_unreg, httpVars >>

\* data = await websocket.receive_json() returns a JSON object, and the checks run.
\* Frames that pass the checks (each stores a message) are counted against limit.
RecvFrame(c, data, limit) ==
    /\ ws_pc[c] = "active"
    /\ ws_open[c]
    /\ LET v == Verdict(ws_me[c][1], data)
           passes == v.verdict \in {"offline", "online"}
       IN  /\ passes => nframes < limit
           /\ nframes' = IF passes THEN nframes + 1 ELSE nframes
           /\ ws_cur' = [ws_cur EXCEPT ![c] = v]
           /\ ws_pc' = [ws_pc EXCEPT ![c] = IF v.verdict = "online" THEN "save" ELSE "notice"]
           /\ ws_recv' = IF passes THEN [ws_recv EXCEPT ![c] = Append(@, v.text)]
                         ELSE ws_recv
    /\ UNCHANGED << dbVars, active_connections, ws_me, ws_open, ws_close, ws_sent,
                    ws_saved, last_iter, ws_unreg, httpVars >>

\* receive_json raises WebSocketDisconnect: the client has gone.
RecvDisconnect(c) ==
    /\ ws_pc[c] = "active"
    /\ ~ws_open[c]
    /\ Finally(c, "disconnect")
    /\ UNCHANGED << dbVars, ws_me, ws_close, ws_recv, httpVars, nframes >>

\* receive_json returns no JSON object with string fields (not JSON, a list, a
\* number in "to"): json.loads, data.get or .strip raises, and only finally runs.
RecvMalformed(c) ==
    /\ ws_pc[c] = "active"
    /\ ws_open[c]
    /\ Finally(c, "malformed")
    /\ UNCHANGED << dbVars, ws_me, ws_close, ws_recv, httpVars, nframes >>

\* Notices that leave the user name out.
NoticeText_anonymous(cur) ==
    CASE cur.verdict = "unsupported" -> <<"Unsupported message type.">>
      [] cur.verdict = "required" -> <<"Both 'to' and 'text' fields are required.">>
      [] cur.verdict = "nouser" -> <<"User does not exist.">>
      [] cur.verdict = "notfriend" -> <<"You are not friends with">>
      [] cur.verdict = "offline" -> <<"User is currently offline.">>

\* The message of the system notice each outcome of the checks is answered with.
NoticeText(cur) ==
    CASE cur.verdict = "unsupported" -> <<"Unsupported message type.">>
      [] cur.verdict = "required" -> <<"Both 'to' and 'text' fields are required.">>
      [] cur.verdict = "nouser" -> <<"User does not exist.", cur.to_username>>
      [] cur.verdict = "notfriend" -> <<"You are not friends with", cur.to_username>>
      [] cur.verdict = "offline" -> <<"User is currently offline.", cur.to_username>>

\* A handler that ends after the notice of a rejected frame, where the code has
\* `continue`.
SendNotice_closes(c) ==
    /\ ws_pc[c] = "notice"
    /\ LET out == Out(c, SystemFrame(NoticeText(ws_cur[c])))
       IN  IF ~ws_open[c] \/ ws_cur[c].verdict # "offline"
           THEN Finally(c, "send")
           ELSE /\ ws_sent' = [ws_sent EXCEPT ![c] = Append(@, out)]
                /\ ws_pc' = [ws_pc EXCEPT ![c] = "save"]
                /\ UNCHANGED << active_connections, ws_open, ws_cur, ws_saved, last_iter,
                                ws_unreg >>
    /\ UNCHANGED << dbVars, ws_me, ws_close, ws_recv, httpVars, nframes >>

\* await _send_system(websocket, ...) of a rejected frame (then `continue`) or of
\* the offline path (then save_message).
SendNotice(c) ==
    /\ ws_pc[c] = "notice"
    /\ LET out == Out(c, SystemFrame(NoticeText(ws_cur[c])))
       IN  IF ~ws_open[c]
           THEN Finally(c, "send")
           ELSE IF ws_cur[c].verdict = "offline"
           THEN /\ ws_sent' = [ws_sent EXCEPT ![c] = Append(@, out)]
                /\ ws_pc' = [ws_pc EXCEPT ![c] = "save"]
                /\ UNCHANGED << active_connections, ws_open, ws_cur, ws_saved, last_iter,
                                ws_unreg >>
           ELSE Continue(c, Append(ws_sent[c], out), ws_saved[c])
    /\ UNCHANGED << dbVars, ws_me, ws_close, ws_recv, httpVars, nframes >>

\* INSERT INTO messages ...; commit
save_message(from_user_id, to_user_id, kind, text, url) ==
    /\ messages' = Append(messages,
           [id |-> Len(messages) + 1, from_user_id |-> from_user_id,
            to_user_id |-> to_user_id, kind |-> kind, text |-> text, url |-> url,
            created_at |-> now])
    /\ msg_friends' = Append(msg_friends, are_friends(from_user_id, to_user_id))

\* db.save_message(me.id, target["id"], kind="text", text=text, url=None), on the
\* offline path (then `continue`) and on the online path (then the two sends);
\* the statement may fail (sqlite3.Error), which leaves the try block.
Save(c, stored) ==
    /\ ws_pc[c] = "save"
    /\ LET saved == Append(ws_saved[c], Len(messages) + 1)
       IN  IF ~stored
           THEN /\ Finally(c, "save")
                /\ UNCHANGED << messages, msg_friends, msg_conn >>
           ELSE /\ save_message(ws_me[c][1].id, (CHOOSE u \in ws_cur[c].target : TRUE).id,
                                "text", ws_cur[c].text, <<>>)
                /\ msg_conn' = Append(msg_conn, c)
                /\ IF ws_cur[c].verdict = "online"
                   THEN /\ ws_saved' = [ws_saved EXCEPT ![c] = saved]
                        /\ ws_pc' = [ws_pc EXCEPT ![c] = "deliver"]
                        /\ UNCHANGED << active_connections, ws_open, ws_cur, ws_sent,
                                        last_iter, ws_unreg >>
                   ELSE Continue(c, ws_sent[c], saved)
    /\ UNCHANGED << friend_requests, now, ws_me, ws_close, ws_recv, httpVars, nframes >>

\* await target_ws.send_json(msg_payload)
Deliver(c) ==
    /\ ws_pc[c] = "deliver"
    /\ LET target_ws == ws_cur[c].target_ws[1]
       IN  IF ws_open[target_ws]
           THEN /\ ws_sent' = [ws_sent EXCEPT ![c] = Append(@,
                       Out(target_ws, ChatFrame(ws_me[c][1].username, ws_cur[c].text)))]
                /\ ws_pc' = [ws_pc EXCEPT ![c] = "echo"]
                /\ UNCHANGED << active_connections, ws_open, ws_cur, ws_saved, last_iter,
                                ws_unreg >>
           ELSE Finally(c, "send_target")
    /\ UNCHANGED << dbVars, ws_me, ws_close, ws_recv, httpVars, nframes >>

\* An echo sent to the connection the registry holds for the sender's name.
Echo_to_registered(c) ==
    /\ ws_pc[c] = "echo"
    /\ LET n == ws_me[c][1].username
           ws == IF n \in DOMAIN active_connections THEN active_connections[n] ELSE c
       IN  IF ws_open[ws]
           THEN Continue(c, Append(ws_sent[c],
                            Out(ws, ChatFrame(ws_me[c][1].username, ws_cur[c].text))),
                         ws_saved[c])
           ELSE Finally(c, "send")
    /\ UNCHANGED << dbVars, ws_me, ws_close, ws_recv, httpVars, nframes >>

\* await websocket.send_json(msg_payload)
Echo(c) ==
    /\ ws_pc[c] = "echo"
    /\ IF ws_open[c]
       THEN Continue(c, Append(ws_sent[c],
                        Out(c, ChatFrame(ws_me[c][1].username, ws_cur[c].text))),
                     ws_saved[c])
       ELSE Finally(c, "send")
    /\ UNCHANGED << dbVars, ws_me, ws_close, ws_recv, httpVars, nframes >>

\* ------------------------------------------------------------ upload_file
\* The file names uploaded: short names without a directory part, which
\* os.path.basename and the cut to the last 100 characters leave as they are.
FilenameInputs == { <<"notes.pdf">> }

FileFrame(username, filename, url) ==
    [type |-> "file", from |-> username, filename |-> filename, url |-> url]

\* upload_file up to `await file.read()`: the detail of the 400 response, or
\* "proceed".
upload_check(me, to_username) ==
    LET target == get_user_by_username(to_username)
    IN  IF target = {} THEN "Target user does not exist"
        ELSE IF ~are_friends(me, (CHOOSE u \in target : TRUE).id)
        THEN "You are not friends with this user"
        ELSE "proceed"

\* POST /upload ends, with the payload as its response or with a 500, and the
\* slot is free again.  sender_live: the uploader has a registered connection
\* whose client is there as the call ends.
UploadReturn(k, stored, result, sent) ==
    /\ calls' = [calls EXCEPT ![k] = IdleCall]
    /\ last_upload' =
           [me |-> calls[k].me, target |-> calls[k].target.id, stored |-> stored,
            result |-> result, sent |-> sent,
            sender_live |->
                /\ username_of(calls[k].me) \in DOMAIN active_connections
                /\ ws_open[active_connections[username_of(calls[k].me)]]]

\* POST /upload, up to `await file.read()`: the target and friendship checks.
\* Uploads that pass the checks (each stores a message) are counted against limit.
UploadCheck(k, me, to_username, filename, limit) ==
    /\ FreeSlot(k)
    /\ IF upload_check(me, strip(to_username)) = "proceed"
       THEN /\ nframes < limit
            /\ nframes' = nframes + 1
            /\ calls' = [calls EXCEPT ![k] =
                    [op |-> "upload", pc |-> "save", me |-> me,
                     target |-> CHOOSE u \in get_user_by_username(strip(to_username)) : TRUE,
                     filename |-> filename, ws |-> <<>>, sent |-> <<>>]]
       ELSE UNCHANGED << calls, nframes >>
    /\ UNCHANGED << dbVars, wsVars, respond_ok, history, last_upload >>

\* ws_payload of the upload in slot k.
UploadPayload(k) ==
    FileFrame(username_of(calls[k].me), calls[k].filename,
              <<"/files/", calls[k].filename>>)

\* After a send to the target (or none): sender_ws = active_connections.get(me.username).
UploadToSender(k, sent) ==
    IF username_of(calls[k].me) \in DOMAIN active_connections
    THEN /\ calls' = [calls EXCEPT ![k] = [@ EXCEPT !.pc = "notify_sender",
                 !.ws = <<active_connections[username_of(calls[k].me)]>>,
                 !.sent = sent]]
         /\ UNCHANGED last_upload
    ELSE UploadReturn(k, TRUE, "payload", sent)

\* The file is written (OSError: 500), the message stored (sqlite3.Error: 500)
\* and target_ws = active_connections.get(target["username"]) looked up.
UploadSave(k, written, stored) ==
    /\ calls[k].op = "upload"
    /\ calls[k].pc = "save"
    /\ IF ~written \/ ~stored
       THEN /\ UploadReturn(k, FALSE, "error", <<>>)
            /\ UNCHANGED << messages, msg_friends, msg_conn >>
       ELSE /\ save_message(calls[k].me, calls[k].target.id, "file", calls[k].filename,
                            <<"/files/", calls[k].filename>>)
            /\ msg_conn' = Append(msg_conn, 0)
            /\ IF calls[k].target.username \in DOMAIN active_connections
               THEN /\ calls' = [calls EXCEPT ![k] = [@ EXCEPT !.pc = "notify_target",
                            !.ws = <<active_connections[calls[k].target.username]>>]]
                    /\ UNCHANGED last_upload
               ELSE UploadToSender(k, <<>>)
    /\ UNCHANGED << friend_requests, now, wsVars, respond_ok, history, nframes >>

\* await target_ws.send_json(ws_payload); when it raises, the call ends (500).
UploadNotifyTarget(k) ==
    /\ calls[k].op = "upload"
    /\ calls[k].pc = "notify_target"
    /\ IF ws_open[calls[k].ws[1]]
       THEN UploadToSender(k, <<Out(calls[k].ws[1], UploadPayload(k))>>)
       ELSE UploadReturn(k, TRUE, "error", <<>>)
    /\ UNCHANGED << dbVars, wsVars, respond_ok, history, nframes >>

\* await sender_ws.send_json(ws_payload); return ws_payload
UploadNotifySender(k) ==
    /\ calls[k].op = "upload"
    /\ calls[k].pc = "notify_sender"
    /\ IF ws_open[calls[k].ws[1]]
       THEN UploadReturn(k, TRUE, "payload",
                         Append(calls[k].sent, Out(calls[k].ws[1], UploadPayload(k))))
       ELSE UploadReturn(k, TRUE, "error", calls[k].sent)
    /\ UNCHANGED << dbVars, wsVars, respond_ok, history, nframes >>

\* ------------------------------------------------------------ get_history
\* The names asked for, and the values of the limit query parameter (an int,
\* taken as it comes).
HistoryNames == { <<"alice">>, <<"bob">>, <<"carol">>, <<"bob", WS>>, <<"zed">> }
HistoryLimits == { -1, 0, 1, 2 }

\* Row i comes before row j under ORDER BY m.created_at ASC, m.id ASC.
ordered_before(i, j) ==
    \/ messages[i].created_at < messages[j].created_at
    \/ (messages[i].created_at = messages[j].created_at /\ i < j)

\* The rowids of S in the order of ORDER BY m.created_at ASC, m.id ASC.
RECURSIVE order_by(_)
order_by(S) ==
    IF S = {} THEN <<>>
    ELSE LET first == CHOOSE i \in S : \A j \in S \ {i} : ordered_before(i, j)
         IN  <<first>> \o order_by(S \ {first})

\* LIMIT ?  (SQLite: a negative LIMIT puts no upper bound on the rows returned)
limit_rows(rows, limit) ==
    IF limit < 0 \/ limit >= Len(rows) THEN rows ELSE SubSeq(rows, 1, limit)

\* db.get_conversation: the rowids of the rows returned, in the order returned.
get_conversation(user1_id, user2_id, limit) ==
    limit_rows(
        order_by({ i \in DOMAIN messages :
                     \/ (messages[i].from_user_id = user1_id
                         /\ messages[i].to_user_id = user2_id)
                     \/ (messages[i].from_user_id = user2_id
                         /\ messages[i].to_user_id = user1_id) }),
        limit)

\* One row of the SELECT, as the MessageItem that get_history returns.
MessageItem(i) ==
    [from_username |-> username_of(messages[i].from_user_id),
     to_username |-> username_of(messages[i].to_user_id),
     kind |-> messages[i].kind, text |-> messages[i].text, url |-> messages[i].url,
     created_at |-> messages[i].created_at]

\* get_history up to get_conversation: the detail of the 400 response, or "select".
history_check(me, friend_username) ==
    LET friend == get_user_by_username(friend_username)
    IN  IF friend = {} THEN "Friend not found"
        ELSE IF ~are_friends(me, (CHOOSE u \in friend : TRUE).id)
        THEN "You are not friends with this user"
        ELSE "select"

\* GET /history, up to the friendship check: the call ends with a 400 response,
\* or stands before the SELECT of get_conversation.
HistoryCheck(k, me, friend_username, limit) ==
    /\ FreeSlot(k)
    /\ calls' = IF history_check(me, strip(friend_username)) = "select"
                THEN [calls EXCEPT ![k] =
                        [op |-> "history", me |-> me, limit |-> limit,
                         friend |->
                             (CHOOSE u \in get_user_by_username(strip(friend_username)) :
                                  TRUE).id]]
                ELSE calls
    /\ UNCHANGED << dbVars, wsVars, respond_ok, history, last_upload, nframes >>

\* The SELECT of get_conversation, and the response built from its rows.
HistorySelect(k) ==
    /\ calls[k].op = "history"
    /\ LET ids == get_conversation(calls[k].me, calls[k].friend, calls[k].limit)
       IN  history' = [me |-> calls[k].me, friend |-> calls[k].friend,
                       limit |-> calls[k].limit, count |-> Len(messages),
                       ids |-> ids,
                       rows |-> [n \in DOMAIN ids |-> MessageItem(ids[n])]]
    /\ calls' = [calls EXCEPT ![k] = IdleCall]
    /\ UNCHANGED << dbVars, wsVars, respond_ok, last_upload, nframes >>

\* The wall clock moves; it may be set back.
ClockStep(t) ==
    /\ t # now
    /\ now' = t
    /\ UNCHANGED << friend_requests, messages, msg_friends, msg_conn, wsVars, httpVars,
                    nframes >>

\* ------------------------------------------------------------ specs
FriendsNext ==
    \/ \E k \in Slots, me \in Callers, n \in UsernameInputs : CreateCheck(k, me, n)
    \/ \E k \in Slots : CreateInsert(k)
    \/ \E k \in Slots, me \in Callers, id \in 1 .. 2, a \in BOOLEAN :
           RespondCheck(k, me, id, a)
    \/ \E k \in Slots : RespondUpdate(k)

RelayNext(C, limit) ==
    \/ \E c \in C, t \in TokenInputs : Connect(c, t)
    \/ \E c \in C : Greet(c)
    \/ \E c \in C : ClientDrop(c)
    \/ \E c \in C, d \in FrameInputs : RecvFrame(c, d, limit)
    \/ \E c \in C : RecvDisconnect(c)
    \/ \E c \in C : RecvMalformed(c)
    \/ \E c \in C : SendNotice(c)
    \/ \E c \in C, ok \in BOOLEAN : Save(c, ok)
    \/ \E c \in C : Deliver(c)
    \/ \E c \in C : Echo(c)

\* A friend_requests table the friend workflow leaves behind for alice and bob.
StoredRequest(status) ==
    [id |-> 1, from_user_id |-> 1, to_user_id |-> 2, status |-> status,
     responded_at |-> IF status = "pending" THEN "NULL" ELSE "stamped"]

\* The process starts on the database file of earlier runs.
InitRelay ==
    /\ \E t \in { <<>>, <<StoredRequest("pending")>>, <<StoredRequest("accepted")>>,
                  <<StoredRequest("rejected")>> } :
           /\ friend_requests = t
           /\ respond_ok = [i \in DOMAIN t |-> IF t[i].status = "pending" THEN 0 ELSE 1]
    /\ messages = <<>>
    /\ msg_friends = <<>>
    /\ msg_conn = <<>>
    /\ now = 0
    /\ active_connections = << >>
    /\ ws_pc = [c \in Conns |-> "new"]
    /\ ws_me = [c \in Conns |-> <<>>]
    /\ ws_open = [c \in Conns |-> FALSE]
    /\ ws_close = [c \in Conns |-> <<>>]
    /\ ws_cur = [c \in Conns |-> NoLocals]
    /\ ws_sent = [c \in Conns |-> <<>>]
    /\ ws_saved = [c \in Conns |-> <<>>]
    /\ last_iter = [conn |-> 0, cur |-> NoLocals, sent |-> <<>>, saved |-> <<>>,
                    how |-> "none"]
    /\ ws_unreg = [c \in Conns |-> <<>>]
    /\ ws_recv = [c \in Conns |-> <<>>]
    /\ history = NoHistory
    /\ last_upload = NoUpload
    /\ calls = [k \in Slots |-> IdleCall]
    /\ nframes = 0

UploadNext(limit) ==
    \/ \E k \in Slots, me \in Callers, n \in UsernameInputs, f \in FilenameInputs :
           UploadCheck(k, me, n, f, limit)
    \/ \E k \in Slots, w \in BOOLEAN, ok \in BOOLEAN : UploadSave(k, w, ok)
    \/ \E k \in Slots : UploadNotifyTarget(k)
    \/ \E k \in Slots : UploadNotifySender(k)

\* The friend workflow beside chat frames and uploads whose clients stay.
AuthNext ==
    \/ FriendsNext
    \/ \E c \in 1 .. AuthConns, t \in TokenInputs : Connect(c, t)
    \/ \E c \in 1 .. AuthConns : Greet(c)
    \/ \E c \in 1 .. AuthConns, d \in FrameInputs : RecvFrame(c, d, AuthFrames)
    \/ \E c \in 1 .. AuthConns : SendNotice(c)
    \/ \E c \in 1 .. AuthConns, ok \in BOOLEAN : Save(c, ok)
    \/ UploadNext(AuthFrames)

\* alice's requests to bob and to carol, both accepted or one of them pending.
HistoryRequests ==
    { << StoredRequest("accepted"),
         [id |-> 2, from_user_id |-> 3, to_user_id |-> 1, status |-> a,
          responded_at |-> IF a = "pending" THEN "NULL" ELSE "stamped"] >> :
      a \in {"accepted", "pending"} }

\* The process starts on the database file of earlier runs, no client connected.
InitHistory ==
    /\ \E t \in HistoryRequests :
           /\ friend_requests = t
           /\ respond_ok = [i \in DOMAIN t |-> IF t[i].status = "pending" THEN 0 ELSE 1]
    /\ messages = <<>>
    /\ msg_friends = <<>>
    /\ msg_conn = <<>>
    /\ now = 0
    /\ active_connections = << >>
    /\ ws_pc = [c \in Conns |-> "new"]
    /\ ws_me = [c \in Conns |-> <<>>]
    /\ ws_open = [c \in Conns |-> FALSE]
    /\ ws_close = [c \in Conns |-> <<>>]
    /\ ws_cur = [c \in Conns |-> NoLocals]
    /\ ws_sent = [c \in Conns |-> <<>>]
    /\ ws_saved = [c \in Conns |-> <<>>]
    /\ last_iter = [conn |-> 0, cur |-> NoLocals, sent |-> <<>>, saved |-> <<>>,
                    how |-> "none"]
    /\ ws_unreg = [c \in Conns |-> <<>>]
    /\ ws_recv = [c \in Conns |-> <<>>]
    /\ calls = [k \in Slots |-> IdleCall]
    /\ history = NoHistory
    /\ last_upload = NoUpload
    /\ nframes = 0

\* Uploads between alice, bob and carol while the clock moves, and history reads.
HistoryNext ==
    \/ \E k \in Slots, me \in Callers, n \in HistoryNames, f \in FilenameInputs :
           UploadCheck(k, me, n, f, HistoryMsgs)
    \/ \E k \in Slots : UploadSave(k, TRUE, TRUE)
    \/ \E t \in 0 .. MaxClock : ClockStep(t)
    \/ \E k \in Slots, me \in Callers, n \in HistoryNames, l \in HistoryLimits :
           HistoryCheck(k, me, n, l)
    \/ \E k \in Slots : HistorySelect(k)

Next ==
    \/ FriendsNext
    \/ RelayNext(Conns, RelayFrames)
    \/ UploadNext(RelayFrames)
    \/ HistoryNext

Spec == Init /\ [][Next]_vars

SpecAuth == Init /\ [][AuthNext]_vars

SpecFriends == Init /\ [][FriendsNext]_vars

\* Chat frames with two texts, to tell the frames of one connection apart.
OrderInputs ==
    { [type |-> "chat", to |-> n, text |-> t] :
        n \in { <<"alice">>, <<"bob">> }, t \in { <<"hi">>, <<"yo">> } }

\* Two connections that relay several chat frames each.
OrderNext ==
    \/ \E c \in 1 .. OrderConns, t \in TokenInputs : Connect(c, t)
    \/ \E c \in 1 .. OrderConns : Greet(c)
    \/ \E c \in 1 .. OrderConns : ClientDrop(c)
    \/ \E c \in 1 .. OrderConns, d \in OrderInputs : RecvFrame(c, d, OrderFrames)
    \/ \E c \in 1 .. OrderConns : RecvDisconnect(c)
    \/ \E c \in 1 .. OrderConns : SendNotice(c)
    \/ \E c \in 1 .. OrderConns, ok \in BOOLEAN : Save(c, ok)
    \/ \E c \in 1 .. OrderConns : Deliver(c)
    \/ \E c \in 1 .. OrderConns : Echo(c)

SpecOrder == InitRelay /\ [][OrderNext]_vars

\* Three connections, so that a user may connect twice beside a friend; the
\* handlers run to the end of their iterations while the clients stay.
SupersedeNext ==
    \/ \E c \in 1 .. SupersedeConns, t \in TokenInputs : Connect(c, t)
    \/ \E c \in 1 .. SupersedeConns : Greet(c)
    \/ \E c \in 1 .. SupersedeConns, d \in FrameInputs : RecvFrame(c, d, SupersedeFrames)
    \/ \E c \in 1 .. SupersedeConns : SendNotice(c)
    \/ \E c \in 1 .. SupersedeConns, ok \in BOOLEAN : Save(c, ok)
    \/ \E c \in 1 .. SupersedeConns : Deliver(c)
    \/ \E c \in 1 .. SupersedeConns : Echo(c)

SpecSupersede == InitRelay /\ [][SupersedeNext]_vars

\* Uploads while clients connect and go away.
ShareNext ==
    \/ \E c \in 1 .. ShareConns, t \in TokenInputs : Connect(c, t)
    \/ \E c \in 1 .. ShareConns : Greet(c)
    \/ \E c \in 1 .. ShareConns : ClientDrop(c)
    \/ \E c \in 1 .. ShareConns : RecvDisconnect(c)
    \/ UploadNext(ShareUploads)

SpecShare == InitRelay /\ [][ShareNext]_vars

SpecHistory == InitHistory /\ [][HistoryNext]_vars

SpecRelay == InitRelay /\ [][RelayNext(1 .. RelayConns, RelayFrames)]_vars

\* ------------------------------------------------------------ properties
\* The loop iteration that ended last was a chat frame to a friend found in the
\* registry / not found in the registry / a frame turned down by a check.
OnlineIteration == last_iter.cur.verdict = "online"
OfflineIteration == last_iter.cur.verdict = "offline"
Rejected == { "unsupported", "required", "nouser", "notfriend" }

\* The row that iteration's sender and text make in the messages table.
IterationMessage(id) ==
    [id |-> id, from_user_id |-> ws_me[last_iter.conn][1].id,
     to_user_id |-> (CHOOSE u \in last_iter.cur.target : TRUE).id,
     kind |-> "text", text |-> last_iter.cur.text, url |-> <<>>,
     created_at |-> messages[id].created_at]

IterationChatFrame ==
    ChatFrame(ws_me[last_iter.conn][1].username, last_iter.cur.text)

\* C1: a chat frame from an active connection to a friend whose name has a
\* registry entry stores exactly one message and sends exactly one chat frame to
\* the recipient's registered connection and exactly one echo to the sender's
\* own connection, both with the same from and text.  (Iterations cut short by
\* the store failing or by the sender's own client leaving are left aside.)
C1_OnlineChatRelayed ==
    (OnlineIteration /\ last_iter.how \notin {"save", "send"}) =>
        /\ Len(last_iter.saved) = 1
        /\ last_iter.saved[1] \in DOMAIN messages
        /\ messages[last_iter.saved[1]] = IterationMessage(last_iter.saved[1])
        /\ last_iter.sent =
               << Out(last_iter.cur.target_ws[1], IterationChatFrame),
                  Out(last_iter.conn, IterationChatFrame) >>

\* C2: a chat frame from an active connection to a friend whose name has no
\* registry entry stores exactly one message and sends the sender one system
\* notice naming the offline user; no chat frame is sent to any connection.
C2_OfflineChatStored ==
    (OfflineIteration /\ last_iter.how = "continue") =>
        /\ Len(last_iter.saved) = 1
        /\ last_iter.saved[1] \in DOMAIN messages
        /\ messages[last_iter.saved[1]] = IterationMessage(last_iter.saved[1])
        /\ last_iter.sent =
               << Out(last_iter.conn,
                      SystemFrame(<<"User is currently offline.",
                                    last_iter.cur.to_username>>)) >>
        /\ \A i \in DOMAIN last_iter.sent : last_iter.sent[i].frame.type # "chat"

C2_Witness ==
    /\ OfflineIteration
    /\ last_iter.how = "continue"
    /\ last_iter.cur.to_username = <<"bob">>
    /\ Len(messages) = 1
    /\ <<"bob">> \notin DOMAIN active_connections

\* C3: a frame turned down by a check (type other than chat, empty to or text
\* after trimming, unknown recipient, recipient who is not a friend) is answered
\* with exactly one system notice to the sender; no message is stored, no frame
\* goes to another connection, and the connection stays registered and active,
\* back at receive_json.
C3_RejectedFrameNoticed ==
    [][\A c \in Conns :
          (/\ ws_pc[c] = "notice"
           /\ ws_cur[c].verdict \in Rejected
           /\ ws_open[c]
           /\ ws_pc'[c] # "notice")
          => /\ ws_pc'[c] = "active"
             /\ ws_open'[c]
             /\ messages' = messages
             /\ active_connections' = active_connections
             /\ last_iter' = [conn |-> c, cur |-> ws_cur[c],
                              sent |-> <<Out(c, SystemFrame(NoticeText(ws_cur[c])))>>,
                              saved |-> <<>>, how |-> "continue"]]_vars

\* A frame from a non-friend was answered, and the same connection is at work
\* on its next frame.
C3_Witness ==
    /\ last_iter.cur.verdict = "notfriend"
    /\ last_iter.how = "continue"
    /\ last_iter.conn \in Conns
    /\ ws_pc[last_iter.conn] = "notice"
    /\ ws_cur[last_iter.conn].verdict = "nouser"

\* C4: every row of messages was appended at a moment when an accepted friend
\* request existed between its sender and its recipient.
C4_FriendsAtAppend ==
    \A i \in DOMAIN msg_friends : msg_friends[i]

\* C5: while a chat frame that passed the checks is being handled, no frame
\* answering it (offline notice, chat delivery, echo) has been sent unless its
\* message has been appended.
C5_StoredBeforeAnswered ==
    \A c \in Conns :
        (ws_cur[c].verdict \in {"offline", "online"} /\ ws_sent[c] # <<>>)
            => ws_saved[c] # <<>>

\* C6: among the respond calls on one request id, at most one succeeds.
C6_RespondsOnce ==
    \A i \in DOMAIN respond_ok : respond_ok[i] <= 1

\* C7: at most one friend_requests row per unordered pair of users.
C7_OneRowPerPair ==
    \A i, j \in DOMAIN friend_requests :
        i # j => { friend_requests[i].from_user_id, friend_requests[i].to_user_id }
                 # { friend_requests[j].from_user_id, friend_requests[j].to_user_id }

\* A row exists for the unordered pair, whatever its status and direction.
Related(a, b) ==
    \E i \in DOMAIN friend_requests :
        { friend_requests[i].from_user_id, friend_requests[i].to_user_id } = {a, b}

AlreadyRelated ==
    { "You are already friends", "A pending friend request already exists",
      "A friend request already exists" }

\* C8: once a row exists for the pair (a,b), a create call issued by a or by b
\* for the other, whether the row is pending, accepted or rejected, ends with
\* one of the AlreadyRelated messages and leaves friend_requests (and the call
\* slots: it never reaches the INSERT) unchanged.
C8_SecondCreateRefused ==
    /\ [](\A a, b \in UserIds :
             (a # b /\ Related(a, b)) => create_check(a, username_of(b)) \in AlreadyRelated)
    /\ [][\A k \in Slots, a \in UserIds, n \in UsernameInputs :
             (/\ CreateCheck(k, a, n)
              /\ \E u \in get_user_by_username(strip(n)) : u.id # a /\ Related(a, u.id))
             => UNCHANGED << friend_requests, calls >>]_vars

\* bob asks for alice while alice's request to bob stands rejected.
C8_Witness ==
    /\ Len(friend_requests) = 1
    /\ friend_requests[1].from_user_id = 1
    /\ friend_requests[1].status = "rejected"
    /\ create_check(2, <<"alice">>) = "A friend request already exists"
    /\ create_check(1, <<"bob">>) = "A friend request already exists"

\* C9: are_friends is symmetric, true exactly when a row between the two users
\* in either direction is accepted (false while it is absent, pending or
\* rejected), and true in the state right after a respond that accepts.
C9_AreFriends ==
    /\ [](\A a, b \in UserIds :
             /\ are_friends(a, b) = are_friends(b, a)
             /\ are_friends(a, b) <=>
                    \E i \in DOMAIN friend_requests :
                        /\ { friend_requests[i].from_user_id,
                             friend_requests[i].to_user_id } = {a, b}
                        /\ friend_requests[i].status = "accepted")
    /\ [][\A k \in Slots, a, b \in UserIds :
             (/\ calls[k].op = "respond"
              /\ calls[k].accept
              /\ calls'[k].op = "idle"
              /\ friend_requests[calls[k].request_id].from_user_id = a
              /\ friend_requests[calls[k].request_id].to_user_id = b)
             => are_friends(a, b)' /\ are_friends(b, a)']_vars

\* bob has accepted alice's request.
C9_Witness ==
    /\ Len(friend_requests) = 1
    /\ friend_requests[1].from_user_id = 1
    /\ friend_requests[1].status = "accepted"
    /\ respond_ok[1] = 1
    /\ are_friends(2, 1)

\* C10: the registry maps a name to one connection, that of a handler of that
\* user; a connection that registers is what lookup returns from then on, also
\* when another was registered under the name; and the finally clause of a
\* connection that is no longer the registered one leaves the registry as it is
\* (that of the registered one removes the entry).
C10_Registry ==
    /\ [](\A n \in DOMAIN active_connections :
             /\ active_connections[n] \in Conns
             /\ ws_me[active_connections[n]] # <<>>
             /\ ws_me[active_connections[n]][1].username = n)
    /\ [][\A c \in Conns :
             /\ (ws_pc[c] = "new" /\ ws_pc'[c] = "greet")
                => /\ ws_me'[c][1].username \in DOMAIN active_connections'
                   /\ active_connections'[ws_me'[c][1].username] = c
             /\ (ws_unreg'[c] # ws_unreg[c])
                => LET n == ws_me[c][1].username
                   IN  IF n \in DOMAIN active_connections /\ active_connections[n] # c
                       THEN active_connections' = active_connections
                       ELSE n \notin DOMAIN active_connections']_vars

\* alice connected twice; the first handler has ended, the second is registered.
C10_Witness ==
    /\ ws_me[1] = ws_me[2]
    /\ ws_me[1] # <<>>
    /\ ws_unreg[1] = <<"kept">>
    /\ ws_pc[1] = "closed"
    /\ ws_me[2][1].username \in DOMAIN active_connections
    /\ active_connections[ws_me[2][1].username] = 2

\* C11: a connection that presents no token, or a token that resolves to no
\* user, goes from accepted straight to closed with close code 4401; the step
\* changes neither the registry nor the messages table, and such a connection
\* is never registered, never handles a frame, never runs the finally clause
\* and never stores a message.  A connection leaves "new" in no other way than
\* closed with 4401 or with its user resolved.
C11_Unauthorized ==
    /\ [](\A c \in Conns :
             ws_close[c] = <<4401>> =>
                 /\ ws_pc[c] = "closed"
                 /\ ws_me[c] = <<>>
                 /\ ws_cur[c] = NoLocals
                 /\ ws_recv[c] = <<>>
                 /\ ws_unreg[c] = <<>>
                 /\ last_iter.conn # c
                 /\ \A n \in DOMAIN active_connections : active_connections[n] # c
                 /\ \A i \in DOMAIN msg_conn : msg_conn[i] # c)
    /\ [][\A c \in Conns :
             (ws_pc[c] = "new" /\ ws_pc'[c] # "new") =>
                 \/ /\ ws_pc'[c] = "closed"
                    /\ ws_close'[c] = <<4401>>
                    /\ ws_me'[c] = <<>>
                    /\ active_connections' = active_connections
                    /\ messages' = messages
                 \/ /\ ws_pc'[c] = "greet"
                    /\ ws_close'[c] = <<>>
                    /\ ws_me'[c] # <<>>
                    /\ \E s \in sessions : s.user_id = ws_me'[c][1].id]_vars

\* The first connection was turned away while the second one got registered and
\* has had a frame handled.
C11_Witness ==
    /\ ws_close[1] = <<4401>>
    /\ ws_pc[1] = "closed"
    /\ ws_me[2] # <<>>
    /\ last_iter.conn = 2
    /\ DOMAIN active_connections = { ws_me[2][1].username }

\* The conversation a GET /history call was about, as the table held it when the
\* call ran its SELECT: the rowids between the caller and the named friend.
HistoryConversation ==
    { i \in 1 .. history.count :
        { messages[i].from_user_id, messages[i].to_user_id }
            = { history.me, history.friend } }

\* Row j was created after row i (insertion order breaking ties).
CreatedAfter(j, i) ==
    \/ messages[j].created_at > messages[i].created_at
    \/ (messages[j].created_at = messages[i].created_at /\ j > i)

\* C12: a GET /history call between two friends returns at most limit messages
\* (none when limit is negative), ordered oldest to newest by creation time with
\* insertion order breaking ties, each of them between the caller and the named
\* friend in one direction or the other.
C12_HistoryPage ==
    history.me # 0 =>
        /\ Len(history.ids) <= (IF history.limit < 0 THEN 0 ELSE history.limit)
        /\ \A m, n \in DOMAIN history.ids :
               m < n => CreatedAfter(history.ids[n], history.ids[m])
        /\ \A n \in DOMAIN history.ids :
               /\ history.ids[n] \in HistoryConversation
               /\ { history.rows[n].from_username, history.rows[n].to_username }
                      = { username_of(history.me), username_of(history.friend) }

\* C13: when the conversation holds more than limit messages, the rows read are
\* the limit most recent ones: a row is returned exactly when fewer than limit
\* rows of the conversation were created after it.
C13_MostRecentPage ==
    (history.me # 0 /\ history.limit >= 0
        /\ Cardinality(HistoryConversation) > history.limit) =>
        \A i \in HistoryConversation :
            (\E n \in DOMAIN history.ids : history.ids[n] = i)
                <=> Cardinality({ j \in HistoryConversation : CreatedAfter(j, i) })
                        < history.limit

\* C14: an upload that passed the checks and whose file message is stored ends
\* with the payload as its response, and with the payload sent to the uploader's
\* registered connection when the uploader is online, whether the send to the
\* target went through, raised, or was skipped because the target is offline.
C14_SenderNotified ==
    (last_upload.stored /\ last_upload.sender_live) =>
        /\ last_upload.result = "payload"
        /\ \E n \in DOMAIN last_upload.sent :
               /\ last_upload.sent[n].frame.type = "file"
               /\ ws_me[last_upload.sent[n].to] # <<>>
               /\ ws_me[last_upload.sent[n].to][1].id = last_upload.me

\* The request ids a client may name (one more than the table can hold here).
RequestIds == 1 .. 3

C16_UnregisteredOnce ==
    \A c \in Conns :
        (ws_pc[c] = "closed" /\ ws_me[c] # <<>>) =>
            /\ Len(ws_unreg[c]) = 1
            /\ \A n \in DOMAIN active_connections : active_connections[n] # c

\* C17: an iteration whose save_message failed has sent no frame answering the
\* chat frame: no chat delivery, no echo, no offline notice.
C17_NothingSentOnFailure ==
    last_iter.how = "save" => last_iter.sent = <<>>

\* C18: a friend_requests row is never deleted, never changes once its status
\* is accepted or rejected, and leaves pending only for accepted or rejected,
\* under a respond call made by its target.
C18_TerminalStatus ==
    [][\A i \in DOMAIN friend_requests :
          /\ i \in DOMAIN friend_requests'
          /\ friend_requests[i].status # "pending"
                 => friend_requests'[i] = friend_requests[i]
          /\ friend_requests'[i].status # friend_requests[i].status
                 => /\ friend_requests[i].status = "pending"
                    /\ friend_requests'[i].status \in {"accepted", "rejected"}
                    /\ \E k \in Slots :
                           /\ calls[k].op = "respond"
                           /\ calls[k].request_id = i
                           /\ calls[k].me = friend_requests[i].to_user_id]_vars

\* The texts of the first n rows of messages that connection c's handler
\* appended, in rowid order.
RECURSIVE StoredTexts(_, _)
StoredTexts(c, n) ==
    IF n = 0 THEN <<>>
    ELSE IF msg_conn[n] = c THEN Append(StoredTexts(c, n - 1), messages[n].text)
    ELSE StoredTexts(c, n - 1)

\* C19: a connection's handler reads its next frame only when no iteration is
\* under way, so the messages it has appended are, in rowid order, the frames
\* it received that passed the checks, in the order received, less at most the
\* one under way (or the one whose save failed and ended the handler).
C19_SenderOrder ==
    /\ [](\A c \in Conns :
             LET stored == StoredTexts(c, Len(messages))
             IN  /\ Len(stored) <= Len(ws_recv[c])
                 /\ Len(ws_recv[c]) <= Len(stored) + 1
                 /\ stored = SubSeq(ws_recv[c], 1, Len(stored)))
    /\ [][\A c \in Conns :
             (ws_recv'[c] # ws_recv[c] \/ ws_cur'[c] \notin {ws_cur[c], NoLocals})
             => /\ ws_pc[c] = "active"
                /\ ws_cur[c] = NoLocals
                /\ ws_sent[c] = <<>>
                /\ ws_saved[c] = <<>>]_vars

\* One connection has relayed "yo" and then "hi", both stored in that order.
C19_Witness ==
    /\ ws_recv[1] = << <<"yo">>, <<"hi">> >>
    /\ StoredTexts(1, Len(messages)) = << <<"yo">>, <<"hi">> >>
    /\ ws_pc[1] = "active"
    /\ ws_pc[2] = "active"

\* The chat frames among the frames sent.
ChatFrames(sent) ==
    { sent[n].frame : n \in { n \in DOMAIN sent : sent[n].frame.type = "chat" } }

\* C20: the user a connection's token resolved to never changes, and every chat
\* frame its handler sends, to whatever connection, carries that user's name as
\* from, as every message it stores carries that user's id as sender, whatever
\* the inbound frame holds (a from key of its own included).
C20_FromIsTokenIdentity ==
    /\ [](/\ \A c \in Conns : \A f \in ChatFrames(ws_sent[c]) :
                 f.from = ws_me[c][1].username
          /\ \A f \in ChatFrames(last_iter.sent) :
                 f.from = ws_me[last_iter.conn][1].username
          /\ \A i \in DOMAIN messages :
                 msg_conn[i] # 0 =>
                     messages[i].from_user_id = ws_me[msg_conn[i]][1].id
          /\ \A c \in Conns :
                 ws_me[c] # <<>> => \E s \in sessions : s.user_id = ws_me[c][1].id)
    /\ [][\A c \in Conns : ws_me[c] # <<>> => ws_me'[c] = ws_me[c]]_vars

\* alice's connection has relayed a chat frame to bob's: stored under alice's
\* id, delivered and echoed with from alice.
C20_Witness ==
    /\ last_iter.how = "continue"
    /\ last_iter.cur.verdict = "online"
    /\ last_iter.conn \in Conns
    /\ ws_me[last_iter.conn][1].username = <<"alice">>
    /\ Len(last_iter.sent) = 2
    /\ Len(messages) = 1
    /\ messages[1].from_user_id = 1
    /\ msg_conn[1] = last_iter.conn

\* C21: no friend request has its sender as its target (create_friend_request
\* refuses it), so are_friends(u, u) is false for every user in every state; a
\* chat frame whose to is the sender's own name gets the verdict "not friends",
\* is answered with that notice alone, and no message has its sender as its
\* recipient.
C21_NoSelfChat ==
    /\ \A i \in DOMAIN friend_requests :
           friend_requests[i].from_user_id # friend_requests[i].to_user_id
    /\ \A u \in users :
           /\ ~are_friends(u.id, u.id)
           /\ create_check(u.id, u.username) = "Cannot add yourself as a friend"
    /\ \A c \in Conns :
           (ws_cur[c] # NoLocals /\ ws_cur[c].to_username = ws_me[c][1].username)
               => /\ ws_cur[c].verdict = "notfriend"
                  /\ ws_saved[c] = <<>>
    /\ (last_iter.conn \in Conns
        /\ last_iter.cur.to_username = ws_me[last_iter.conn][1].username)
           => /\ last_iter.cur.verdict = "notfriend"
              /\ last_iter.saved = <<>>
              /\ last_iter.how = "continue"
                     => last_iter.sent =
                            << Out(last_iter.conn,
                                   SystemFrame(<<"You are not friends with",
                                                 last_iter.cur.to_username>>)) >>
    /\ \A i \in DOMAIN messages :
           messages[i].from_user_id # messages[i].to_user_id

\* alice, who is friends with bob, has sent a chat frame to alice and got the
\* notice; nothing is stored.
C21_Witness ==
    /\ last_iter.conn \in Conns
    /\ ws_me[last_iter.conn][1].username = <<"alice">>
    /\ last_iter.cur.to_username = <<"alice">>
    /\ last_iter.cur.verdict = "notfriend"
    /\ last_iter.how = "continue"
    /\ are_friends(1, 2)
    /\ messages = <<>>

\* An iteration of a connection whose name the registry gives to another
\* connection by the time the iteration is over.
SupersededIteration ==
    /\ last_iter.conn \in Conns
    /\ ws_me[last_iter.conn][1].username \in DOMAIN active_connections
    /\ active_connections[ws_me[last_iter.conn][1].username] # last_iter.conn

\* C22: the echo of a chat frame goes to the connection that submitted it and
\* not to the connection the registry holds for the sender's name.  Every frame
\* a handler sends goes to its own connection or to the connection looked up for
\* the addressee, which is one of another user, so a newer connection of the
\* sender gets none of them; a frame of a connection that passes the checks is
\* stored by that connection, delivered to the addressee's connection and echoed
\* to the submitting connection, also when the registry holds a newer connection
\* under the name; and another connection's registering leaves a connection
\* open and its handler where it was.
C22_EchoToSubmitter ==
    /\ [](/\ \A c \in Conns : \A i \in DOMAIN ws_sent[c] :
                 \/ ws_sent[c][i].to = c
                 \/ /\ ws_cur[c].target_ws = << ws_sent[c][i].to >>
                    /\ ws_me[ws_sent[c][i].to] # ws_me[c]
          /\ last_iter.conn \in Conns =>
                 /\ \A i \in DOMAIN last_iter.sent :
                        \/ last_iter.sent[i].to = last_iter.conn
                        \/ /\ last_iter.cur.target_ws = << last_iter.sent[i].to >>
                           /\ ws_me[last_iter.sent[i].to] # ws_me[last_iter.conn]
                 /\ (last_iter.cur.verdict = "online" /\ last_iter.how = "continue") =>
                        /\ Len(last_iter.saved) = 1
                        /\ msg_conn[last_iter.saved[1]] = last_iter.conn
                        /\ messages[last_iter.saved[1]].from_user_id
                               = ws_me[last_iter.conn][1].id
                        /\ last_iter.sent =
                               << Out(last_iter.cur.target_ws[1],
                                      ChatFrame(ws_me[last_iter.conn][1].username,
                                                last_iter.cur.text)),
                                  Out(last_iter.conn,
                                      ChatFrame(ws_me[last_iter.conn][1].username,
                                                last_iter.cur.text)) >>)
    /\ [][\A c, d \in Conns :
             (c # d /\ ws_pc[d] = "new" /\ ws_pc'[d] = "greet")
                 => /\ ws_pc'[c] = ws_pc[c]
                    /\ ws_open'[c] = ws_open[c]
                    /\ ws_me'[c] = ws_me[c]]_vars

\* alice's first connection, superseded by her second before bob connected, has
\* had a frame to bob stored, delivered to bob's connection and echoed to itself,
\* while the registry holds her second connection, which is still there.
C22_Witness ==
    /\ SupersededIteration
    /\ last_iter.conn = 1
    /\ ws_me[1] = ws_me[2]
    /\ ws_me[1][1].username = <<"alice">>
    /\ active_connections[<<"alice">>] = 2
    /\ ws_open[2]
    /\ ws_unreg[2] = <<>>
    /\ ws_pc[1] = "active"
    /\ last_iter.cur.verdict = "online"
    /\ last_iter.cur.target_ws = <<3>>
    /\ last_iter.how = "continue"
    /\ last_iter.sent[2].to = 1
    /\ Len(messages) = 1
    /\ msg_conn[1] = 1

====
